---- MODULE Spec2Model ----
(***************************************************************************)
(* A model of sapclimcp: the specification compiler (ArgParserTool), the   *)
(* reconciliation of a call against a compiled schema (parse_args,         *)
(* _extract_command_args) and the execution bridge (SapcliCommandTool.run, *)
(* _run_adt_command, _run_gcts_command, _run_sapcli_command), the output   *)
(* capture console (OutputBuffer) and the catalog that                     *)
(* transform_sapcli_commands publishes. Where the server script            *)
(* sapcli-mcp-server.py carries its own copy of a class or loop that       *)
(* differs, both copies are modelled.                                      *)
(*                                                                         *)
(* Text is a sequence of chunks; a chunk is "-", "_" or a piece holding    *)
(* neither, so "--no-cache" is <<"-", "-", "no", "-", "cache">>.           *)
(* A Python value is a record [kind, items]: None, a scalar or a list.     *)
(***************************************************************************)
EXTENDS Naturals, Integers, Sequences, FiniteSets, TLC

VARIABLES
    nodes,      \* the ArgParserTool objects, in creation order; nodes[1] is the root
    ndecl,      \* add_argument / add_properties / set_defaults calls made so far
    last,       \* the last builder call or reconciliation and its outcome
    console,    \* sap.cli.core's process-wide active console: a buffer id, 0 = the default
    heap,       \* the OutputBuffer objects: id -> [out, err]
    calls       \* the invocations of the bridge: id -> its position and locals;
                \* in a compile pass, the nodes conn_factory was assigned on, in order

vars == <<nodes, ndecl, last, console, heap, calls>>

----------------------------------------------------------------------------
\* Bounds of the model

\* nodes created by add_parser, beside the root
MaxNodes == 1
\* add_argument / add_properties / set_defaults calls of one compile pass
MaxDecls == 1
\* add_argument calls on the group's node of a catalog calls are made against
MaxCatalogDecls == 2
\* invocations of one run of the bridge
NCalls == 2
\* writes of one bound operation
MaxWrites == 2
\* nodes created by add_parser, beside the root, where the tree's shape matters
MaxTreeNodes == 2
\* writes of one bound operation, where invocations run concurrently
MaxOverlapWrites == 1
\* writes to one OutputBuffer
MaxBufferWrites == 4

----------------------------------------------------------------------------
\* Python values

None == [kind |-> "none", items |-> <<>>]
Scalar(a) == [kind |-> "scalar", items |-> <<a>>]
List(s) == [kind |-> "list", items |-> s]
\* a keyword that was not passed at all
Absent == [kind |-> "absent", items |-> <<>>]

\* isinstance(value, list)
IsList(v) == v.kind = "list"

\* the element a one-element list built around v holds
AsItem(v) == IF v.kind = "none" THEN "None" ELSE v.items[1]

Range(s) == {s[i] : i \in DOMAIN s}

\* dict[key] = value
SetKey(d, k, v) == (k :> v) @@ d

EmptyDict == [x \in {} |-> None]

----------------------------------------------------------------------------
\* Type/Action resolver (argparsertool.py)

\* an attachment that takes None for a default too
AddDefaultAlways(spec, default) ==
    IF default.kind # "absent" THEN SetKey(spec, "default", default) ELSE spec

\* _add_default_if_specified(spec, default); default is None when the keyword is absent
AddDefaultIfSpecified(spec, default) ==
    IF default.kind \notin {"none", "absent"}
    THEN SetKey(spec, "default", default)
    ELSE spec

\* a conversion that takes any other type for a string
BuiltinToSpecLenient(typ) ==
    CASE typ = "bool" -> [ok |-> TRUE, spec |-> [type |-> "boolean"]]
      [] typ = "int" -> [ok |-> TRUE, spec |-> [type |-> "integer"]]
      [] OTHER -> [ok |-> TRUE, spec |-> [type |-> "string"]]

\* _builtin_to_spec(builtinTyp): ok is FALSE when it raises ArgToToolConversionError
BuiltinToSpec(typ) ==
    CASE typ = "bool" -> [ok |-> TRUE, spec |-> [type |-> "boolean"]]
      [] typ = "str" -> [ok |-> TRUE, spec |-> [type |-> "string"]]
      [] typ = "int" -> [ok |-> TRUE, spec |-> [type |-> "integer"]]
      [] OTHER -> [ok |-> FALSE, spec |-> [type |-> "unsupported"]]

\* a resolver that takes action='append' for a plain store
ArgumentSpecToJsonSpecPlain(kw) ==
    LET r == IF kw.nargs \in {"+", "*"}
             THEN [ok |-> TRUE, spec |-> [type |-> "array", items |-> [type |-> "string"]]]
             ELSE [ok |-> TRUE, spec |-> [type |-> "string"]]
    IN  [ok |-> r.ok, spec |-> AddDefaultIfSpecified(r.spec, kw.default)]

\* _argument_spec_to_json_spec(argparserArgument); "absent" stands for a keyword
\* that is not in kwargs (get() then yields None, or '' for nargs)
ArgumentSpecToJsonSpec(kw) ==
    LET action == kw.action
        typ == kw.type
        nargs == kw.nargs
        r == IF action = "append" \/ nargs \in {"+", "*"}
             THEN LET item == IF typ = "absent" THEN BuiltinToSpec("str")
                              ELSE BuiltinToSpec(typ)
                  IN  [ok |-> item.ok,
                       spec |-> [type |-> "array", items |-> item.spec]]
             ELSE IF action \in {"store_true", "store_false"}
             THEN BuiltinToSpec("bool")
             ELSE IF action = "count"
             THEN BuiltinToSpec("int")
             ELSE IF action = "absent" /\ typ = "absent"
             THEN BuiltinToSpec("str")
             ELSE BuiltinToSpec(typ)
    IN  [ok |-> r.ok, spec |-> AddDefaultIfSpecified(r.spec, kw.default)]

----------------------------------------------------------------------------
\* Specification compiler: ArgParserTool (argparsertool.py)

\* str.lstrip('-')
RECURSIVE lstrip(_)
lstrip(s) ==
    IF s # <<>> /\ Head(s) = "-" THEN lstrip(Tail(s)) ELSE s

\* a replace that leaves the text as it is
replaceNothing(s) == s

\* str.replace('-', '_')
replace(s) == [i \in DOMAIN s |-> IF s[i] = "-" THEN "_" ELSE s[i]]

\* a derivation that takes the first flag, whatever its shape
ParameterNameFirst(args) == [ok |-> TRUE, name |-> replace(lstrip(args[1]))]

\* the name add_argument derives from its flags; ok is FALSE when args[1] is
\* read and only one flag was given (IndexError)
ParameterName(args) ==
    LET first == args[1]
    IN  IF first[1] = "-"
        THEN IF first[2] # "-"
             THEN IF Len(args) >= 2
                  THEN [ok |-> TRUE, name |-> replace(lstrip(args[2]))]
                  ELSE [ok |-> FALSE, name |-> first]
             ELSE [ok |-> TRUE, name |-> replace(lstrip(first))]
        ELSE [ok |-> TRUE, name |-> first]

\* a requiredness that counts nargs='+' as optional too
IsRequiredPlus(kw) ==
    LET hasdefault == kw.default.kind # "absent"
        optional_nargs == kw.nargs \in {"?", "*", "+"}
    IN  IF kw.required = "absent"
        THEN ~hasdefault /\ ~optional_nargs
        ELSE kw.required = "true"

\* the value of `required` in add_argument
IsRequired(kw) ==
    LET hasdefault == kw.default.kind # "absent"
        optional_nargs == kw.nargs \in {"?", "*"}
    IN  IF kw.required = "absent"
        THEN ~hasdefault /\ ~optional_nargs
        ELSE kw.required = "true"

\* ArgParserTool.__init__
NewNode(name, parent, conn_factory) ==
    [name |-> name, cmdfn |-> "None", conn_factory |-> conn_factory,
     properties |-> EmptyDict, required |-> <<>>, tools |-> EmptyDict,
     parent |-> parent,
     ids |-> EmptyDict]     \* id() of the objects nested in each fragment

\* a validation that stops at the first missing name
MissingFirst(required, arguments) ==
    LET absent == {i \in DOMAIN required : required[i] \notin DOMAIN arguments}
    IN  IF absent = {} THEN <<>>
        ELSE << required[CHOOSE i \in absent : \A j \in absent : i <= j] >>

\* _validate_arguments: the required names that are not keys of arguments, in order
RECURSIVE Missing(_, _)
Missing(required, arguments) ==
    IF required = <<>> THEN <<>>
    ELSE IF Head(required) \notin DOMAIN arguments
         THEN <<Head(required)>> \o Missing(Tail(required), arguments)
         ELSE Missing(Tail(required), arguments)

\* id() of the mutable objects a fragment holds: its items dict and its default
\* value; 0 where the fragment has none
NoIds == [items |-> 0, default |-> 0]

\* the ids in use in a tree
UsedIds(ns) ==
    {0} \cup UNION { UNION { {ns[i].ids[q].items, ns[i].ids[q].default} :
                             q \in DOMAIN ns[i].ids } : i \in DOMAIN ns }

\* the id of an object created now
FreshId(ns) == 1 + CHOOSE m \in UsedIds(ns) : \A k \in UsedIds(ns) : k <= m

\* the node and its ancestors, up to the root (the chain _add_subtool walks)
RECURSIVE Ancestors(_, _)
Ancestors(ns, n) ==
    IF ns[n].parent = 0 THEN {n} ELSE {n} \cup Ancestors(ns, ns[n].parent)

\* an add_parser whose child starts with an empty schema
DoAddParserBare(ns, n, name) ==
    LET id == Len(ns) + 1
        subtool_name == ns[n].name \o <<"_">> \o name
        up == Ancestors(ns, n)
    IN  Append([i \in DOMAIN ns |->
                   IF i \in up
                   THEN [ns[i] EXCEPT !.tools = SetKey(@, subtool_name, id)]
                   ELSE ns[i]],
               NewNode(subtool_name, n, ns[n].conn_factory))

\* add_parser(name) on node n, _add_subtool included: the nodes afterwards
DoAddParser(ns, n, name) ==
    LET id == Len(ns) + 1
        subtool_name == ns[n].name \o <<"_">> \o name
        \* prop_spec.copy() is a new dict holding the same nested objects
        subtool == [NewNode(subtool_name, n, ns[n].conn_factory) EXCEPT
                       !.properties = ns[n].properties,
                       !.ids = ns[n].ids,
                       !.required = ns[n].required]
        up == Ancestors(ns, n)
    IN  Append([i \in DOMAIN ns |->
                   IF i \in up
                   THEN [ns[i] EXCEPT !.tools = SetKey(@, subtool_name, id)]
                   ELSE ns[i]],
               subtool)

\* add_properties(properties, required) on node n; properties is the dict's
\* items in order, each <<name, spec>>
RECURSIVE DoAddProperties(_, _, _, _)
DoAddProperties(ns, n, properties, required) ==
    IF properties = <<>> THEN ns
    ELSE LET param_name == Head(properties)[1]
             param_spec == Head(properties)[2]
             \* the fragments injected are flat: nothing nested to share
             one == [ns EXCEPT
                        ![n].properties = SetKey(@, param_name, param_spec),
                        ![n].ids = SetKey(@, param_name, NoIds),
                        ![n].required = IF required THEN Append(@, param_name) ELSE @]
         IN  DoAddProperties(one, n, Tail(properties), required)

\* the message add_argument raises ArgToToolConversionError with:
\* self.name + " " + parameter + ': ' + str(ex) + " " + str(kwargs)
ConversionMessage(name, parameter, kw) ==
    <<name, " ", parameter, ": ", "Unsupported type: ", kw.type, " ", kw>>

\* add_argument(*args, **kwargs) on node n: the nodes afterwards and what it raised
DoAddArgument(ns, n, args, kw) ==
    LET parameter == ParameterName(args)
        json == ArgumentSpecToJsonSpec(kw)
        \* the items dict is built by this call, the default is the caller's object
        made == [items |-> IF "items" \in DOMAIN json.spec
                           THEN FreshId(ns) ELSE 0,
                 default |-> IF "default" \in DOMAIN json.spec
                             THEN FreshId(ns) + 1 ELSE 0]
    IN  IF ~parameter.ok
        THEN [nodes |-> ns, raised |-> "IndexError", parameter |-> parameter.name,
              message |-> <<>>]
        ELSE IF ~json.ok
        THEN [nodes |-> ns, raised |-> "ArgToToolConversionError",
              parameter |-> parameter.name,
              message |-> ConversionMessage(ns[n].name, parameter.name, kw)]
        ELSE [nodes |-> [ns EXCEPT
                            ![n].properties = SetKey(@, parameter.name, json.spec),
                            ![n].ids = SetKey(@, parameter.name, made),
                            ![n].required = IF IsRequired(kw)
                                            THEN Append(@, parameter.name)
                                            ELSE @],
              raised |-> "none", parameter |-> parameter.name, message |-> <<>>]

\* set_defaults(**kwargs) on node n: the error object is built and dropped, then
\* kwargs['execute'] is read
DoSetDefaults(ns, n, kwargs) ==
    IF "execute" \in DOMAIN kwargs
    THEN [nodes |-> [ns EXCEPT ![n].cmdfn = kwargs["execute"]], raised |-> "none"]
    ELSE [nodes |-> ns, raised |-> "KeyError"]

----------------------------------------------------------------------------
\* Connection parameters (mcptools.py)

ashost == <<"ashost">>
client == <<"client">>
user == <<"user">>
password == <<"password">>
http_port == <<"http", "_", "port">>
use_ssl == <<"use", "_", "ssl">>
verify_ssl == <<"verify", "_", "ssl">>
sysnr == <<"sysnr">>

COMMON_CONNECTION_PARAMS ==
    << <<ashost, [type |-> "string"]>>, <<client, [type |-> "string"]>>,
       <<user, [type |-> "string"]>>, <<password, [type |-> "string"]>> >>

ADT_CONNECTION_PARAMS ==
    << <<http_port, [type |-> "integer"]>>, <<use_ssl, [type |-> "boolean"]>>,
       <<verify_ssl, [type |-> "boolean"]>> >>

RFC_CONNECTION_PARAMS == << <<sysnr, [type |-> "string"]>> >>

ODATA_CONNECTION_PARAMS == ADT_CONNECTION_PARAMS

GCTS_CONNECTION_PARAMS == ADT_CONNECTION_PARAMS

HTTP_CONNECTION_PARAMS ==
    {ashost, http_port, client, user, password, use_ssl, verify_ssl}

\* sap.cli.get_commands() pairs every command group with one of these
ConnFactories == {"adt", "rfc", "gcts", "odata"}

\* conn_factory_to_params.get(conn_factory)
ConnFactoryToParams(conn_factory) ==
    CASE conn_factory = "adt" -> ADT_CONNECTION_PARAMS
      [] conn_factory = "rfc" -> RFC_CONNECTION_PARAMS
      [] conn_factory = "gcts" -> GCTS_CONNECTION_PARAMS
      [] conn_factory = "odata" -> ODATA_CONNECTION_PARAMS

\* one round of transform_sapcli_commands' first loop, up to install_parser:
\* add_parser on the root, the factory, the common and the specific parameters
DoTransformCommand(ns, conn_factory, name) ==
    LET id == Len(ns) + 1
        made == DoAddParser(ns, 1, name)
        withf == [made EXCEPT ![id].conn_factory = conn_factory]
        common == DoAddProperties(withf, id, COMMON_CONNECTION_PARAMS, TRUE)
    IN  DoAddProperties(common, id, ConnFactoryToParams(conn_factory), TRUE)

----------------------------------------------------------------------------
\* The inputs of the compile pass

KW(a, t, n, d, r) ==
    [action |-> a, type |-> t, nargs |-> n, default |-> d, required |-> r]

\* declarations as sapcli's commands make them
Kwargs ==
    { KW("absent", "absent", "absent", Absent, "absent"),
      KW("absent", "absent", "+", Absent, "absent"),
      KW("absent", "absent", "*", Absent, "absent"),
      KW("absent", "absent", "?", Absent, "absent"),
      KW("absent", "absent", "absent", Scalar("json"), "absent"),
      KW("absent", "absent", "absent", None, "absent"),
      KW("absent", "absent", "absent", Absent, "false"),
      KW("absent", "absent", "absent", Scalar("json"), "true"),
      KW("store_true", "absent", "absent", Scalar("False"), "absent"),
      KW("absent", "float", "absent", Absent, "absent") }

\* flags: a positional, a long-only flag of the same name, a short+long pair
ArgFlags ==
    { << <<"name">> >>,
      << <<"-", "-", "name">> >>,
      << <<"-", "f">>, <<"-", "-", "files">> >> }

\* local names given to add_parser
LocalNames == { <<"package">>, <<"list">> }

\* keyword sets given to set_defaults
DefaultsKwargs ==
    { [k \in {"execute"} |-> "fn"],
      [k \in {"execute", "func"} |-> "fn"],
      [k \in {"func"} |-> "fn"] }

----------------------------------------------------------------------------
\* The compile pass: builder calls, made before any reconciliation

Compiling == last.op \in {"init", "add_argument", "add_properties", "add_parser",
                          "set_defaults", "transform", "conn_factory"}

AddArgument(n, args, kw) ==
    /\ Compiling
    /\ ndecl < MaxDecls
    /\ LET r == DoAddArgument(nodes, n, args, kw)
       IN  /\ nodes' = r.nodes
           /\ last' = [op |-> "add_argument", node |-> n, args |-> args,
                       kwargs |-> kw, parameter |-> r.parameter,
                       raised |-> r.raised, message |-> r.message]
    /\ ndecl' = ndecl + 1
    /\ UNCHANGED <<console, heap, calls>>

AddProperties(n, properties, required) ==
    /\ Compiling
    /\ ndecl < MaxDecls
    /\ nodes' = DoAddProperties(nodes, n, properties, required)
    /\ last' = [op |-> "add_properties", node |-> n, raised |-> "none"]
    /\ ndecl' = ndecl + 1
    /\ UNCHANGED <<console, heap, calls>>

\* add_parser(name) on node n of a tree that may grow to max nodes beside the root
AddParserIn(n, name, max) ==
    /\ Compiling
    /\ Len(nodes) < 1 + max
    /\ nodes' = DoAddParser(nodes, n, name)
    /\ last' = [op |-> "add_parser", node |-> n, raised |-> "none"]
    /\ UNCHANGED <<ndecl, console, heap, calls>>

AddParser(n, name) == AddParserIn(n, name, MaxNodes)

TransformCommand(conn_factory, name) ==
    /\ Compiling
    /\ Len(nodes) < 1 + MaxNodes
    /\ nodes' = DoTransformCommand(nodes, conn_factory, name)
    /\ last' = [op |-> "transform", node |-> 1, raised |-> "none"]
    /\ UNCHANGED <<ndecl, console, heap, calls>>

SetDefaults(n, kwargs) ==
    /\ Compiling
    /\ ndecl < MaxDecls
    /\ LET r == DoSetDefaults(nodes, n, kwargs)
       IN  /\ nodes' = r.nodes
           /\ last' = [op |-> "set_defaults", node |-> n, kwargs |-> kwargs,
                       raised |-> r.raised]
    /\ ndecl' = ndecl + 1
    /\ UNCHANGED <<console, heap, calls>>

----------------------------------------------------------------------------
\* Output capture console (mcptools.py, OutputBuffer) and the bridge's results

\* a piece of text: <<kind, call, index>>; "w" is the index-th write of a call's
\* bound operation, "e" the text of the error a call raised
WriteText(c, k) == << <<"w", c, k>> >>
ErrorText(c) == << <<"e", c, 0>> >>
ADT_LEAD_IN == << <<"Could not connect to ADT Server", 0, 0>> >>
GCTS_LEAD_IN == << <<"Could not connect to ABAP HTTP Server", 0, 0>> >>

\* the character a StringIO fills the gap with when it is written to beyond
\* its end
NUL == <<"\\0", 0, 0>>

\* OutputBuffer(): two empty StringIO, each a value and a stream position
NewOutputBuffer == [out |-> <<>>, err |-> <<>>, outpos |-> 0, errpos |-> 0]

\* StringIO.write(text) at position pos: the value afterwards. The text
\* replaces what stands at pos; a position beyond the end is reached by padding
StringIOWrite(value, pos, text) ==
    LET padded == IF pos > Len(value)
                  THEN value \o [i \in 1..(pos - Len(value)) |-> NUL]
                  ELSE value
    IN  SubSeq(padded, 1, pos) \o text
            \o SubSeq(padded, pos + Len(text) + 1, Len(padded))

\* mcptools.py, OutputBuffer.reset: truncate(0) and seek(0) on both streams
Reset(buffer) == [out |-> <<>>, err |-> <<>>, outpos |-> 0, errpos |-> 0]

\* sapcli-mcp-server.py, OutputBuffer.reset: both streams are truncated,
\* std_output is sought twice and err_output is not
ResetScript(buffer) ==
    [out |-> <<>>, err |-> <<>>, outpos |-> 0, errpos |-> buffer.errpos]

capout(buffer) == buffer.out
caperr(buffer) == buffer.err

\* a write that goes to the buffer of the call that makes it (a call-scoped
\* console)
ConsoleWriteScoped(h, con, chan, text) ==
    IF chan = "out"
    THEN [h EXCEPT ![text[1][2]].out = @ \o text,
                   ![text[1][2]].outpos = @ + Len(text)]
    ELSE [h EXCEPT ![text[1][2]].err = @ \o text,
                   ![text[1][2]].errpos = @ + Len(text)]

\* PrintConsole.printout / printerr on the console object con: a write to
\* std_output or to err_output at the stream's position
ConsoleWrite(h, con, chan, text) ==
    IF chan = "out"
    THEN [h EXCEPT ![con].out = StringIOWrite(@, h[con].outpos, text),
                   ![con].outpos = @ + Len(text)]
    ELSE [h EXCEPT ![con].err = StringIOWrite(@, h[con].errpos, text),
                   ![con].errpos = @ + Len(text)]

OperationResult(success, log, contents) ==
    [Success |-> success, LogMessages |-> log, Contents |-> contents]

\* a failure result that drops what was captured
ResultOnSAPCliErrorLost(ex, output_buffer) == OperationResult(FALSE, <<ex>>, <<>>)

\* _run_sapcli_command: the result built in the except branch
ResultOnSAPCliError(ex, output_buffer) ==
    OperationResult(FALSE, <<ex, caperr(output_buffer)>>, capout(output_buffer))

\* _run_sapcli_command: the result built after a normal return
ResultOnReturn(output_buffer) ==
    OperationResult(TRUE, <<caperr(output_buffer)>>, capout(output_buffer))

\* a connection failure result without the error's text
ResultOnConnectionErrorBare(conn_factory, ex) ==
    OperationResult(FALSE,
                    <<IF conn_factory = "adt" THEN ADT_LEAD_IN ELSE GCTS_LEAD_IN>>,
                    <<>>)

\* _run_adt_command / _run_gcts_command: the result built when the connection
\* constructor raised SAPCliError
ResultOnConnectionError(conn_factory, ex) ==
    OperationResult(FALSE,
                    <<IF conn_factory = "adt" THEN ADT_LEAD_IN ELSE GCTS_LEAD_IN, ex>>,
                    <<>>)

NoResult == OperationResult(FALSE, <<>>, <<>>)

\* what a connection constructor or a bound operation can raise
Exceptions == {"SAPCliError", "RuntimeError"}

\* an except clause that catches whatever was raised
CatchesAll(exc) == TRUE

\* `except errors.SAPCliError` in _run_adt_command, _run_gcts_command and
\* _run_sapcli_command
Catches(exc) == exc = "SAPCliError"

\* a buffer that starts with the text of the console it replaces
InstallConsoleShared(h, c) == SetKey(h, c, h[console])

\* _run_sapcli_command: output_buffer = OutputBuffer(); set_console(output_buffer).
\* The heap afterwards; the buffer of call c is object c
InstallConsole(h, c) == SetKey(h, c, NewOutputBuffer)

\* the bound operation run to its end on console con: script is the channels
\* it writes to, in order
RECURSIVE RunScript(_, _, _, _, _)
RunScript(h, con, c, script, k) ==
    IF script = <<>> THEN h
    ELSE RunScript(ConsoleWrite(h, con, Head(script), WriteText(c, k)),
                   con, c, Tail(script), k + 1)

----------------------------------------------------------------------------
\* Reconciliation (argparsertool.py parse_args, mcptools.py _extract_command_args)

\* a validation that lets a required name pass when its fragment has a default
ValidateArgumentsDefaults(node, arguments) ==
    SelectSeq(node.required,
              LAMBDA p : /\ p \notin DOMAIN arguments
                         /\ "default" \notin DOMAIN node.properties[p])

\* ArgParserTool._validate_arguments(arguments)
ValidateArguments(node, arguments) == Missing(node.required, arguments)

\* a reconciliation that passes every value as it came
CoerceNever(prop_spec, value) == value

\* parse_args: an array-typed property always gets a list
Coerce(prop_spec, value) ==
    IF prop_spec.type = "array" /\ ~IsList(value)
    THEN List(<<AsItem(value)>>)
    ELSE value

\* a reconciliation that writes the defaults it applies into the caller's map
ParseArgsFilling(node, arguments, exclude_params) ==
    LET missing_params == ValidateArguments(node, arguments)
        defaulted == {p \in DOMAIN node.properties :
                         /\ p \notin DOMAIN arguments
                         /\ "default" \in DOMAIN node.properties[p]}
        filled == [p \in DOMAIN arguments \cup defaulted |->
                      IF p \in DOMAIN arguments THEN arguments[p]
                      ELSE node.properties[p]["default"]]
    IN  IF missing_params # <<>>
        THEN [raised |-> "MissingArgument", names |-> missing_params,
              prepared |-> EmptyDict, self |-> node, arguments |-> arguments]
        ELSE [raised |-> "none", names |-> <<>>, prepared |-> filled,
              self |-> node, arguments |-> filled]

\* ArgParserTool.parse_args(arguments, exclude_params); exclude_params is never
\* read. self and arguments are the node and the caller's map after the call:
\* parse_args reads both and assigns to neither
ParseArgs(node, arguments, exclude_params) ==
    LET missing_params == ValidateArguments(node, arguments)
        properties == node.properties
        kept == {p \in DOMAIN properties :
                    \/ p \in DOMAIN arguments
                    \/ "default" \in DOMAIN properties[p]
                    \/ p \notin Range(node.required)}
        prepared == [p \in kept |->
                        IF p \in DOMAIN arguments
                        THEN Coerce(properties[p], arguments[p])
                        ELSE IF "default" \in DOMAIN properties[p]
                        THEN properties[p]["default"]
                        ELSE None]
    IN  IF missing_params # <<>>
        THEN [raised |-> "MissingArgument", names |-> missing_params,
              prepared |-> EmptyDict, self |-> node, arguments |-> arguments]
        ELSE [raised |-> "none", names |-> <<>>, prepared |-> prepared,
              self |-> node, arguments |-> arguments]

\* SapcliCommandTool._extract_command_args(arguments)
ExtractCommandArgs(parameters, arguments) ==
    LET properties == parameters.properties
        required_props == parameters.required
        kept == {p \in DOMAIN properties :
                    /\ p \notin HTTP_CONNECTION_PARAMS
                    /\ \/ p \in DOMAIN arguments
                       \/ "default" \in DOMAIN properties[p]
                       \/ p \notin Range(required_props)}
    IN  [p \in kept |->
            IF p \in DOMAIN arguments THEN arguments[p]
            ELSE IF "default" \in DOMAIN properties[p]
            THEN properties[p]["default"]
            ELSE None]

\* the keys _extract_http_connection_config reads, in the order it reads them
HttpConfigKeys == <<ashost, http_port, client, user, password, use_ssl, verify_ssl>>

\* SapcliCommandTool._extract_http_connection_config(arguments): ok is FALSE
\* when a key is absent (KeyError)
ExtractHttpConnectionConfig(arguments) ==
    IF Range(HttpConfigKeys) \subseteq DOMAIN arguments
    THEN [ok |-> TRUE, conf |-> [k \in Range(HttpConfigKeys) |-> arguments[k]]]
    ELSE [ok |-> FALSE, conf |-> EmptyDict]

\* ArgParserTool.to_mcp_input_schema
ToMcpInputSchema(node) ==
    [properties |-> node.properties, required |-> node.required, type |-> "object"]

\* SapcliCommandTool.from_argparser_tool(cmd, conn_factory); it raises when
\* cmd.cmdfn is None
FromArgparserTool(cmd, conn_factory) ==
    [name |-> cmd.name, parameters |-> ToMcpInputSchema(cmd),
     cmdfn |-> cmd.cmdfn, conn_factory |-> conn_factory]

----------------------------------------------------------------------------
\* Execution bridge, one invocation run to its end (mcptools.py)

\* the outcome of one call of the bridge, before anything happened
NoOutcome(con, h) ==
    [raised |-> "none",         \* the exception that left the call, or "none"
     names |-> <<>>,            \* the parameter names the exception's message lists
     result |-> NoResult,       \* the OperationResult, when one was returned
     returned |-> FALSE,        \* an OperationResult was returned
     reconciled |-> FALSE,      \* _extract_command_args was evaluated
     cmd_args |-> EmptyDict,    \* the reconciled command arguments
     conn_conf |-> EmptyDict,   \* the connection-configuration record
     connected |-> FALSE,       \* the connection constructor was called
     invoked |-> FALSE,         \* the bound operation was called
     received |-> EmptyDict,    \* the arguments the bound operation was called with
     steps |-> <<>>,            \* the steps of run that were taken, in order
     connection |-> "-",        \* what the connection constructor did, once called
     tool |-> EmptyDict,        \* the tool object after the call
     arguments |-> EmptyDict,   \* the caller's argument map after the call
     console |-> con, heap |-> h]

\* _run_sapcli_command(conn, command, args) of call c, the bound operation
\* writing op.script and ending as op.ending says
RunSapcliCommand(sofar, c, args, op) ==
    LET installed == InstallConsole(sofar.heap, c)
        after == RunScript(installed, c, c, op.script, 1)
        ran == [sofar EXCEPT !.invoked = TRUE, !.received = args,
                             !.steps = @ \o <<"set_console", "invoke">>,
                             !.console = c, !.heap = after]
    IN  IF op.ending = "return"
        THEN [ran EXCEPT !.returned = TRUE, !.result = ResultOnReturn(after[c])]
        ELSE IF Catches(op.ending)
        THEN [ran EXCEPT !.returned = TRUE,
                         !.result = ResultOnSAPCliError(ErrorText(c), after[c])]
        ELSE [ran EXCEPT !.raised = op.ending]

\* a bridge that goes on to the bound operation whatever the connection
\* constructor did
RunConnCommandAnyway(sofar, c, conn_factory, args, connecting, op) ==
    RunSapcliCommand([sofar EXCEPT !.connected = TRUE, !.connection = connecting,
                                   !.steps = Append(@, "connect")],
                     c, args, op)

\* _run_adt_command / _run_gcts_command(conn_conf, command, args); connecting is
\* what the connection constructor does: "ok", or the exception it raises
RunConnCommand(sofar, c, conn_factory, args, connecting, op) ==
    LET tried == [sofar EXCEPT !.connected = TRUE, !.connection = connecting,
                               !.steps = Append(@, "connect")]
    IN  IF connecting = "ok"
        THEN RunSapcliCommand(tried, c, args, op)
        ELSE IF Catches(connecting)
        THEN [tried EXCEPT !.returned = TRUE,
                           !.result = ResultOnConnectionError(conn_factory, ErrorText(c))]
        ELSE [tried EXCEPT !.raised = connecting]

\* SapcliCommandTool.run(arguments) as call c
RunTool(tool, con, h, c, arguments, connecting, op) ==
    LET \* run reads self and arguments and assigns to neither
        start == [NoOutcome(con, h) EXCEPT !.tool = tool, !.arguments = arguments,
                                           !.steps = <<"cmdfn">>]
        checked == [start EXCEPT !.steps = Append(@, "required")]
        missing_params == Missing(tool.parameters.required, arguments)
        conn_conf == ExtractHttpConnectionConfig(arguments)
        cmd_args == ExtractCommandArgs(tool.parameters, arguments)
        extracted == [checked EXCEPT !.conn_conf = conn_conf.conf,
                                     !.reconciled = TRUE, !.cmd_args = cmd_args]
    IN  IF tool.cmdfn = "None"
        THEN [start EXCEPT !.raised = "SapcliCommandToolError: no command function"]
        ELSE IF missing_params # <<>>
        THEN [checked EXCEPT
                 !.raised = "SapcliCommandToolError: missing required parameters",
                 !.names = missing_params]
        ELSE IF ~conn_conf.ok
        THEN [checked EXCEPT !.raised = "KeyError"]
        ELSE IF tool.conn_factory \in {"adt", "gcts"}
        THEN RunConnCommand(extracted, c, tool.conn_factory, cmd_args, connecting, op)
        ELSE [extracted EXCEPT
                 !.raised = "SapcliCommandToolError: unsupported connection type"]

----------------------------------------------------------------------------
\* Calls against a compiled catalog. A call reads nothing an earlier call
\* wrote, so a behaviour makes one call.

\* the names of the connection parameters transform_sapcli_commands injects
InjectedConnectionParams == HTTP_CONNECTION_PARAMS \cup {sysnr}

\* the argument maps tried on a node: a choice of connection arguments and any
\* choice of the node's other properties, each as a scalar or as a list
CommandValues == {Scalar("a"), List(<<"a", "b">>)}

ConnectionParts(node) ==
    { {},
      DOMAIN node.properties \cap InjectedConnectionParams,
      HTTP_CONNECTION_PARAMS \cup (DOMAIN node.properties \cap InjectedConnectionParams) }

ArgumentMaps(node) ==
    LET others == DOMAIN node.properties \ InjectedConnectionParams
    IN  UNION { UNION { { [p \in cs \cup os |->
                              IF p \in cs THEN Scalar("v") ELSE vals[p]] :
                          vals \in [os -> CommandValues] } :
                        os \in SUBSET others } :
                cs \in ConnectionParts(node) }

\* what the connection constructor and the bound operation do in these calls
Behaviours ==
    { [connecting |-> "ok", script |-> <<"out", "err">>, ending |-> "return"],
      [connecting |-> "ok", script |-> <<"out">>, ending |-> "SAPCliError"],
      [connecting |-> "SAPCliError", script |-> <<>>, ending |-> "return"] }

CallParseArgs(n, arguments, exclude_params) ==
    /\ last.op = "init"
    /\ LET out == ParseArgs(nodes[n], arguments, exclude_params)
       IN  /\ last' = [op |-> "parse_args", node |-> n, arguments |-> arguments,
                       exclude_params |-> exclude_params, out |-> out]
           /\ nodes' = [nodes EXCEPT ![n] = out.self]
    /\ UNCHANGED <<ndecl, console, heap, calls>>

CallRun(n, arguments, op) ==
    /\ last.op = "init"
    /\ nodes[n].cmdfn # "None"
    /\ LET tool == FromArgparserTool(nodes[n], nodes[n].conn_factory)
           out == RunTool(tool, console, heap, 1, arguments, op.connecting, op)
       IN  /\ last' = [op |-> "run", node |-> n, arguments |-> arguments,
                       out |-> [out EXCEPT !.heap = EmptyDict]]
           /\ console' = out.console
           /\ heap' = out.heap
           \* the tool's parameters hold the node's properties dict and
           \* required list themselves (to_mcp_input_schema copies neither)
           /\ nodes' = [nodes EXCEPT
                           ![n].properties = out.tool.parameters.properties,
                           ![n].required = out.tool.parameters.required]
    /\ UNCHANGED <<ndecl, calls>>

\* the declarations of the catalogs calls are made against
ServeKwargs ==
    { KW("absent", "absent", "absent", Absent, "absent"),
      KW("absent", "absent", "+", Absent, "absent"),
      KW("absent", "absent", "?", Absent, "absent"),
      KW("absent", "absent", "absent", Scalar("json"), "absent"),
      KW("absent", "absent", "absent", Scalar("json"), "true") }

ServeFlags ==
    { << <<"name">> >>,
      << <<"-", "f">>, <<"-", "-", "files">> >> }

\* a sequence of add_argument calls on node n
RECURSIVE Declare(_, _, _)
Declare(ns, n, decls) ==
    IF decls = <<>> THEN ns
    ELSE Declare(DoAddArgument(ns, n, Head(decls)[1], Head(decls)[2]).nodes,
                 n, Tail(decls))

DeclSeqs(k) == UNION { [1..i -> ServeFlags \X ServeKwargs] : i \in 0..k }

\* the root declares nothing, or one required positional
RootDecls ==
    { <<>>,
      << << << <<"name">> >>, KW("absent", "absent", "absent", Absent, "absent") >> >> }

\* the catalogs of one command group, compiled as transform_sapcli_commands and
\* install_parser compile them: declarations on the root, the group's node
\* (with its connection parameters, or a bare add_parser), the declarations on
\* it and set_defaults(execute=...)
Catalogs ==
    { LET withroot == Declare(<< NewNode(<<"abap">>, 0, "None") >>, 1, rootdecls)
          grouped == IF cf = "None"
                     THEN DoAddParser(withroot, 1, <<"package">>)
                     ELSE DoTransformCommand(withroot, cf, <<"package">>)
          declared == Declare(grouped, 2, decls)
      IN  DoSetDefaults(declared, 2, [k \in {"execute"} |-> "fn"]).nodes :
        rootdecls \in RootDecls, cf \in ConnFactories \cup {"None"},
        decls \in DeclSeqs(MaxCatalogDecls) }

InitServe ==
    /\ nodes \in Catalogs
    /\ ndecl = 0
    /\ last = [op |-> "init"]
    /\ console = 0
    /\ heap = [b \in {0} |-> NewOutputBuffer]
    /\ calls = <<>>

NextServe ==
    \/ \E n \in DOMAIN nodes : \E arguments \in ArgumentMaps(nodes[n]) :
           CallParseArgs(n, arguments, HTTP_CONNECTION_PARAMS)
    \/ \E n \in DOMAIN nodes : \E arguments \in ArgumentMaps(nodes[n]) :
           \E op \in Behaviours : CallRun(n, arguments, op)

SpecServe == InitServe /\ [][NextServe]_vars

----------------------------------------------------------------------------
\* The bridge step by step: _run_adt_command / _run_gcts_command and
\* _run_sapcli_command, the bound operation writing between the steps.
\* calls[c] holds the locals of invocation c, numbered in order of arrival.

IdleCall ==
    [pc |-> "idle",             \* idle, connected, running, done
     conn_factory |-> "-",      \* the strategy, until the connection stands
     connecting |-> "-",        \* what the connection constructor did
     ending |-> "-",            \* how the bound operation ended
     invoked |-> FALSE,         \* the bound operation was called
     nwrites |-> 0,             \* writes of the bound operation so far
     wrote |-> [out |-> <<>>, err |-> <<>>], \* what the bound operation wrote, per channel, in order
     returned |-> FALSE,        \* an OperationResult was returned
     result |-> NoResult,
     raised |-> "none",         \* the exception that left the call
     prior |-> "-"]             \* the active console when the invocation began

Active(c) == calls[c].pc \in {"connected", "running"}

\* the host runtime hands calls to the bridge one at a time
Serialized == \A d \in DOMAIN calls : ~Active(d)

\* _run_adt_command / _run_gcts_command up to the connection, whatever the
\* other invocations are doing
Arrive(c, conn_factory, connecting) ==
    /\ calls[c].pc = "idle"
    /\ IF c = 1 THEN TRUE ELSE calls[c - 1].pc # "idle"
    /\ calls' = [calls EXCEPT ![c] =
                    IF connecting = "ok"
                    THEN [@ EXCEPT !.prior = console, !.pc = "connected",
                                   !.connecting = connecting]
                    ELSE IF Catches(connecting)
                    THEN [@ EXCEPT !.prior = console, !.pc = "done",
                                   !.connecting = connecting,
                                   !.conn_factory = conn_factory,
                                   !.returned = TRUE,
                                   !.result = ResultOnConnectionError(conn_factory,
                                                                      ErrorText(c))]
                    ELSE [@ EXCEPT !.prior = console, !.pc = "done",
                                   !.connecting = connecting,
                                   !.conn_factory = conn_factory,
                                   !.raised = connecting]]
    /\ UNCHANGED <<nodes, ndecl, last, console, heap>>

\* the same, where the host runtime serializes the calls
Connect(c, conn_factory, connecting) ==
    /\ Serialized
    /\ Arrive(c, conn_factory, connecting)

\* _run_sapcli_command up to the call of the bound operation
Install(c) ==
    /\ calls[c].pc = "connected"
    /\ heap' = InstallConsole(heap, c)
    /\ console' = c
    /\ calls' = [calls EXCEPT ![c].pc = "running", ![c].invoked = TRUE]
    /\ UNCHANGED <<nodes, ndecl, last>>

\* the bound operation of call c writes to the active console; it makes at
\* most max writes
WriteIn(c, chan, max) ==
    /\ calls[c].pc = "running"
    /\ calls[c].nwrites < max
    /\ LET text == WriteText(c, calls[c].nwrites + 1)
       IN  /\ heap' = ConsoleWrite(heap, console, chan, text)
           /\ calls' = [calls EXCEPT
                           ![c].nwrites = @ + 1,
                           ![c].wrote = IF chan = "out"
                                        THEN [@ EXCEPT !.out = @ \o text]
                                        ELSE [@ EXCEPT !.err = @ \o text]]
    /\ UNCHANGED <<nodes, ndecl, last, console>>

Write(c, chan) == WriteIn(c, chan, MaxWrites)

\* the bound operation of call c returns or raises; _run_sapcli_command ends
Finish(c, ending) ==
    /\ calls[c].pc = "running"
    /\ calls' = [calls EXCEPT ![c] =
                    IF ending = "return"
                    THEN [@ EXCEPT !.pc = "done", !.ending = ending, !.returned = TRUE,
                                   !.result = ResultOnReturn(heap[c])]
                    ELSE IF Catches(ending)
                    THEN [@ EXCEPT !.pc = "done", !.ending = ending, !.returned = TRUE,
                                   !.result = ResultOnSAPCliError(ErrorText(c), heap[c])]
                    ELSE [@ EXCEPT !.pc = "done", !.ending = ending, !.raised = ending]]
    /\ UNCHANGED <<nodes, ndecl, last, console, heap>>

InitBridge ==
    /\ nodes = << NewNode(<<"abap">>, 0, "None") >>
    /\ ndecl = 0
    /\ last = [op |-> "init"]
    /\ console = 0
    /\ heap = [b \in {0} |-> NewOutputBuffer]
    /\ calls = [c \in 1..NCalls |-> IdleCall]

NextBridge ==
    \/ \E c \in 1..NCalls, conn_factory \in {"adt", "gcts"},
          connecting \in {"ok"} \cup Exceptions : Connect(c, conn_factory, connecting)
    \/ \E c \in 1..NCalls : Install(c)
    \/ \E c \in 1..NCalls, chan \in {"out", "err"} : Write(c, chan)
    \/ \E c \in 1..NCalls, ending \in {"return"} \cup Exceptions : Finish(c, ending)

SpecBridge == InitBridge /\ [][NextBridge]_vars

----------------------------------------------------------------------------
\* The bridge under a host runtime that runs invocations concurrently: a call
\* may arrive while another is between its steps. The connections stand (a
\* call whose connection fails touches no console) and the operations write to
\* the primary channel.

InitOverlap == InitBridge

NextOverlap ==
    \/ \E c \in 1..NCalls : Arrive(c, "adt", "ok")
    \/ \E c \in 1..NCalls : Install(c)
    \/ \E c \in 1..NCalls : WriteIn(c, "out", MaxOverlapWrites)
    \/ \E c \in 1..NCalls, ending \in {"return", "SAPCliError"} : Finish(c, ending)

SpecOverlap == InitOverlap /\ [][NextOverlap]_vars

----------------------------------------------------------------------------
\* The compile pass on its own

Init ==
    /\ nodes = << NewNode(<<"abap">>, 0, "None") >>
    /\ ndecl = 0
    /\ last = [op |-> "init"]
    /\ console = 0
    /\ heap = [b \in {0} |-> NewOutputBuffer]
    /\ calls = <<>>

Next ==
    \/ \E n \in DOMAIN nodes, args \in ArgFlags, kw \in Kwargs : AddArgument(n, args, kw)
    \/ \E n \in DOMAIN nodes, required \in BOOLEAN :
           AddProperties(n, << <<<<"host">>, [type |-> "string"]>> >>, required)
    \/ \E n \in DOMAIN nodes, name \in LocalNames : AddParser(n, name)
    \/ \E cf \in ConnFactories, name \in LocalNames : TransformCommand(cf, name)
    \/ \E n \in DOMAIN nodes, kwargs \in DefaultsKwargs : SetDefaults(n, kwargs)

Spec == Init /\ [][Next]_vars

----------------------------------------------------------------------------
\* One declaration, of any shape, on a tree that stands

\* every keyword combination add_argument is called with
DeclKwargs ==
    { KW(a, t, n, d, r) :
        a \in {"absent", "store", "append", "store_true", "store_false", "count"},
        t \in {"absent", "str", "int", "bool", "float"},
        n \in {"absent", "+", "*", "?"},
        d \in {Absent, None, Scalar("json")},
        r \in {"absent", "true", "false"} }

\* flag shapes: positionals (one with a dash inside), long-only flags, short+long
\* pairs, a long flag followed by a short one, a short flag alone
DeclFlags ==
    { << <<"name">> >>,
      << <<"object", "-", "name">> >>,
      << <<"-", "-", "name">> >>,
      << <<"-", "-", "include">> >>,
      << <<"-", "-", "dry", "-", "run">> >>,
      << <<"-", "f">>, <<"-", "-", "files">> >>,
      << <<"-", "n">>, <<"-", "-", "dry", "-", "run">> >>,
      << <<"-", "-", "files">>, <<"-", "f">> >>,
      << <<"-", "f">> >> }

\* the trees the declaration is made on: the root alone, the root with a
\* required positional, and that root with a child that inherited it
DeclTrees ==
    LET root == << NewNode(<<"abap">>, 0, "None") >>
        named == Declare(root, 1,
                         << << << <<"name">> >>,
                               KW("absent", "absent", "absent", Absent, "absent") >> >>)
    IN  { root, named, DoAddParser(named, 1, <<"package">>) }

\* the compile pass has one declaration left to make
InitDeclare ==
    /\ nodes \in DeclTrees
    /\ ndecl = MaxDecls - 1
    /\ last = [op |-> "init"]
    /\ console = 0
    /\ heap = [b \in {0} |-> NewOutputBuffer]
    /\ calls = <<>>

NextDeclare ==
    /\ ndecl < MaxDecls
    /\ \/ \E n \in DOMAIN nodes, args \in DeclFlags, kw \in DeclKwargs :
              AddArgument(n, args, kw)
       \/ \E n \in DOMAIN nodes, kwargs \in DefaultsKwargs : SetDefaults(n, kwargs)

SpecDeclare == InitDeclare /\ [][NextDeclare]_vars

----------------------------------------------------------------------------
\* Trees: add_parser at any depth, declarations before and after it

\* a required string, a required array, a string with a default
TreeKwargs ==
    { KW("absent", "absent", "absent", Absent, "absent"),
      KW("absent", "absent", "+", Absent, "absent"),
      KW("absent", "absent", "absent", Scalar("json"), "absent") }

\* two positionals, one with a dash inside, and two short+long pairs
TreeFlags ==
    { << <<"name">> >>,
      << <<"object", "-", "name">> >>,
      << <<"-", "n">>, <<"-", "-", "dry", "-", "run">> >>,
      << <<"-", "f">>, <<"-", "-", "files">> >> }

\* the names add_properties injects in these trees
TreeProperties == << << <<"host">>, [type |-> "string"] >> >>

InitTree == Init

NextTree ==
    \/ \E n \in DOMAIN nodes, name \in LocalNames : AddParserIn(n, name, MaxTreeNodes)
    \/ /\ ndecl < MaxDecls
       /\ \E n \in DOMAIN nodes, args \in TreeFlags, kw \in TreeKwargs :
              AddArgument(n, args, kw)
    \/ \E n \in DOMAIN nodes, required \in BOOLEAN :
           AddProperties(n, TreeProperties, required)

SpecTree == InitTree /\ [][NextTree]_vars

----------------------------------------------------------------------------
\* One OutputBuffer, written to and reset; the class stands in
\* sapclimcp/mcptools.py and, with another reset, in sapcli-mcp-server.py

BufferModules == {"sapclimcp.mcptools", "sapcli-mcp-server"}

\* printout / printerr of the next text on the buffer
BufferWrite(chan) ==
    /\ last.nwrites < MaxBufferWrites
    /\ LET text == WriteText(0, last.nwrites + 1)
       IN  /\ heap' = ConsoleWrite(heap, 0, chan, text)
           /\ last' = [last EXCEPT
                          !.op = "write", !.nwrites = @ + 1,
                          !.since = IF chan = "out"
                                    THEN [@ EXCEPT !.out = @ \o text]
                                    ELSE [@ EXCEPT !.err = @ \o text]]
    /\ UNCHANGED <<nodes, ndecl, console, calls>>

\* reset() of the class in mcptools.py
BufferReset ==
    /\ last.module = "sapclimcp.mcptools"
    /\ heap' = [heap EXCEPT ![0] = Reset(@)]
    /\ last' = [last EXCEPT !.op = "reset", !.since = [out |-> <<>>, err |-> <<>>]]
    /\ UNCHANGED <<nodes, ndecl, console, calls>>

\* reset() of the class in the server script
BufferResetScript ==
    /\ last.module = "sapcli-mcp-server"
    /\ heap' = [heap EXCEPT ![0] = ResetScript(@)]
    /\ last' = [last EXCEPT !.op = "reset", !.since = [out |-> <<>>, err |-> <<>>]]
    /\ UNCHANGED <<nodes, ndecl, console, calls>>

InitBuffer ==
    /\ nodes = << NewNode(<<"abap">>, 0, "None") >>
    /\ ndecl = 0
    /\ last \in { [op |-> "init", module |-> m, nwrites |-> 0,
                   since |-> [out |-> <<>>, err |-> <<>>]] : m \in BufferModules }
    /\ console = 0
    /\ heap = [b \in {0} |-> NewOutputBuffer]
    /\ calls = <<>>

NextBuffer ==
    \/ \E chan \in {"out", "err"} : BufferWrite(chan)
    \/ BufferReset
    \/ BufferResetScript

SpecBuffer == InitBuffer /\ [][NextBuffer]_vars

----------------------------------------------------------------------------
\* Connection strategies: add_parser at any depth and assignments of
\* conn_factory, on any node, before and after its children are created

\* an assignment that reaches the nodes below as well
DoAssignConnFactoryLive(ns, n, conn_factory) ==
    [m \in DOMAIN ns |->
        IF n \in Ancestors(ns, m) THEN [ns[m] EXCEPT !.conn_factory = conn_factory]
        ELSE ns[m]]

\* cmd_tool.conn_factory = conn_factory
DoAssignConnFactory(ns, n, conn_factory) ==
    [ns EXCEPT ![n].conn_factory = conn_factory]

AssignConnFactory(n, conn_factory) ==
    /\ Compiling
    /\ ndecl < MaxDecls
    /\ nodes' = DoAssignConnFactory(nodes, n, conn_factory)
    /\ calls' = Append(calls, n)
    /\ last' = [op |-> "conn_factory", node |-> n, conn_factory |-> conn_factory,
                raised |-> "none"]
    /\ ndecl' = ndecl + 1
    /\ UNCHANGED <<console, heap>>

InitFactory == Init

NextFactory ==
    \/ \E n \in DOMAIN nodes, name \in LocalNames : AddParserIn(n, name, MaxTreeNodes)
    \/ \E n \in DOMAIN nodes, conn_factory \in ConnFactories :
           AssignConnFactory(n, conn_factory)

SpecFactory == InitFactory /\ [][NextFactory]_vars

----------------------------------------------------------------------------
\* The published catalog: the second loop of transform_sapcli_commands, in
\* sapclimcp/mcptools.py and in the server script sapcli-mcp-server.py

\* args_tools.tools.items(): a dict keeps the order in which its keys were
\* first set, so the keys come in the order of the first node of each name
ToolItems(ns) ==
    LET first(m) == \A k \in DOMAIN ns : ns[k].name = ns[m].name => m <= k
        ids == SelectSeq([m \in DOMAIN ns |-> m],
                         LAMBDA m : ns[m].name \in DOMAIN ns[1].tools /\ first(m))
    IN  [i \in DOMAIN ids |-> <<ns[ids[i]].name, ns[1].tools[ns[ids[i]].name]>>]

\* the names the server script publishes ('abap_package_list',
\* 'abap_package_stat', 'abap_gcts_repolist')
ScriptCommands ==
    { <<"abap", "_", "package", "_", "list">>,
      <<"abap", "_", "package", "_", "stat">>,
      <<"abap", "_", "gcts", "_", "repolist">> }

\* allowed_commands: None, or a list of names
AllowedCommands ==
    { [given |-> FALSE, names |-> {}],
      [given |-> TRUE, names |-> {}],
      [given |-> TRUE, names |-> {<<"abap", "_", "package">>}],
      [given |-> TRUE, names |-> ScriptCommands] }

\* mcptools.py, transform_sapcli_commands: the loop over the registry, from
\* item i on; sofar is what server.add_tool received and what was raised
RECURSIVE PublishFrom(_, _, _, _, _)
PublishFrom(ns, items, i, allowed_commands, sofar) ==
    IF i > Len(items) THEN sofar
    ELSE LET tool_name == items[i][1]
             cmd_tool == ns[items[i][2]]
         IN  IF cmd_tool.cmdfn = "None"
             THEN PublishFrom(ns, items, i + 1, allowed_commands, sofar)
             ELSE IF allowed_commands.given /\ tool_name \notin allowed_commands.names
             THEN PublishFrom(ns, items, i + 1, allowed_commands, sofar)
             ELSE PublishFrom(ns, items, i + 1, allowed_commands,
                              [sofar EXCEPT !.published =
                                  Append(@, FromArgparserTool(cmd_tool,
                                                              cmd_tool.conn_factory))])

Publish(ns, allowed_commands) ==
    PublishFrom(ns, ToolItems(ns), 1, allowed_commands,
                [published |-> <<>>, raised |-> "none"])

\* sapcli-mcp-server.py, _transform_sapcli_commands: the loop over the
\* registry; from_argparser_tool raises for a node without cmdfn, which ends
\* the loop and the function
RECURSIVE PublishScriptFrom(_, _, _, _)
PublishScriptFrom(ns, items, i, sofar) ==
    IF i > Len(items) THEN sofar
    ELSE LET tool_name == items[i][1]
             cmd_tool == ns[items[i][2]]
         IN  IF tool_name \notin ScriptCommands
             THEN PublishScriptFrom(ns, items, i + 1, sofar)
             ELSE IF cmd_tool.cmdfn = "None"
             THEN [sofar EXCEPT !.raised = "SapcliCommandToolError"]
             ELSE PublishScriptFrom(ns, items, i + 1,
                                    [sofar EXCEPT !.published =
                                        Append(@, FromArgparserTool(cmd_tool,
                                                                    cmd_tool.conn_factory))])

PublishScript(ns) ==
    PublishScriptFrom(ns, ToolItems(ns), 1, [published |-> <<>>, raised |-> "none"])

\* transform_sapcli_commands builds the catalog once the commands are installed
BuildCatalog(allowed_commands) ==
    /\ Compiling
    /\ last' = [op |-> "publish", module |-> "sapclimcp.mcptools",
                allowed_commands |-> allowed_commands,
                out |-> Publish(nodes, allowed_commands)]
    /\ UNCHANGED <<nodes, ndecl, console, heap, calls>>

\* the server script builds its catalog
BuildCatalogScript ==
    /\ Compiling
    /\ last' = [op |-> "publish", module |-> "sapcli-mcp-server",
                allowed_commands |-> [given |-> TRUE, names |-> ScriptCommands],
                out |-> PublishScript(nodes)]
    /\ UNCHANGED <<nodes, ndecl, console, heap, calls>>

InitPublish == Init

NextPublish ==
    \/ \E n \in DOMAIN nodes, name \in LocalNames : AddParserIn(n, name, MaxTreeNodes)
    \/ \E n \in DOMAIN nodes, kwargs \in DefaultsKwargs : SetDefaults(n, kwargs)
    \/ \E allowed_commands \in AllowedCommands : BuildCatalog(allowed_commands)
    \/ BuildCatalogScript

SpecPublish == InitPublish /\ [][NextPublish]_vars

----------------------------------------------------------------------------
\* Properties of the bridge step by step (SpecBridge)

Done(c) == calls[c].pc = "done"

\* the calls whose text a result holds
Writers(result) ==
    {result.Contents[i][2] : i \in DOMAIN result.Contents}
        \cup UNION { {result.LogMessages[j][i][2] : i \in DOMAIN result.LogMessages[j]} :
                     j \in DOMAIN result.LogMessages }

\* a text's pieces are in the order they were written
InWriteOrder(text) ==
    \A i, j \in DOMAIN text : i < j => text[i][3] < text[j][3]

\* C1: a call whose bound operation returned normally returns Success = TRUE,
\* LogMessages = one element, the diagnostic text this call's operation wrote,
\* and Contents = the primary text it wrote, both in write order; where calls do
\* not overlap, no text of another call is in the result.
C1_NormalReturn ==
    \A c \in DOMAIN calls :
        Done(c) /\ calls[c].ending = "return" =>
            /\ calls[c].returned
            /\ calls[c].raised = "none"
            /\ calls[c].result =
                   OperationResult(TRUE, <<calls[c].wrote.err>>, calls[c].wrote.out)
            /\ InWriteOrder(calls[c].result.Contents)
            /\ InWriteOrder(calls[c].result.LogMessages[1])
            /\ Writers(calls[c].result) \subseteq {c}

\* a second call returned after writing to both channels, the first one having
\* written too
C1_Witness ==
    /\ Done(1) /\ calls[1].nwrites = MaxWrites
    /\ Done(2) /\ calls[2].ending = "return"
    /\ calls[2].wrote.out # <<>> /\ calls[2].wrote.err # <<>>

\* C2: a call whose bound operation raised SAPCliError returns, and does not
\* raise, Success = FALSE, LogMessages = [the error's text, the diagnostic text
\* written up to the failure] and Contents = the primary text written up to the
\* failure.
C2_DomainError ==
    \A c \in DOMAIN calls :
        Done(c) /\ calls[c].ending = "SAPCliError" =>
            /\ calls[c].returned
            /\ calls[c].raised = "none"
            /\ calls[c].result =
                   OperationResult(FALSE, <<ErrorText(c), calls[c].wrote.err>>,
                                   calls[c].wrote.out)

\* an operation raised SAPCliError after writing to both channels
C2_Witness ==
    \E c \in DOMAIN calls :
        /\ Done(c) /\ calls[c].ending = "SAPCliError"
        /\ calls[c].wrote.out # <<>> /\ calls[c].wrote.err # <<>>

\* C3: when the connection constructor raises SAPCliError, for the ADT and for
\* the gCTS strategy, the call returns Success = FALSE, LogMessages = [the
\* strategy's fixed lead-in, the error's text], Contents = "" and the bound
\* operation is not called.
C3_ConnectionError ==
    \A c \in DOMAIN calls :
        Done(c) /\ calls[c].connecting = "SAPCliError" =>
            /\ calls[c].returned
            /\ calls[c].raised = "none"
            /\ calls[c].result =
                   OperationResult(FALSE,
                                   <<IF calls[c].conn_factory = "adt"
                                     THEN ADT_LEAD_IN ELSE GCTS_LEAD_IN,
                                     ErrorText(c)>>,
                                   <<>>)
            /\ ~calls[c].invoked
            /\ calls[c].nwrites = 0

\* the connection failed once for each strategy
C3_Witness ==
    /\ Done(1) /\ calls[1].connecting = "SAPCliError" /\ calls[1].conn_factory = "adt"
    /\ Done(2) /\ calls[2].connecting = "SAPCliError" /\ calls[2].conn_factory = "gcts"

\* C4: an exception of the connection constructor or of the bound operation
\* that is not SAPCliError leaves the call as it is, and the call produces no
\* OperationResult.
C4_Unrecognized ==
    \A c \in DOMAIN calls :
        Done(c) =>
            /\ calls[c].connecting \in Exceptions \ {"SAPCliError"} =>
                   /\ ~calls[c].returned
                   /\ calls[c].result = NoResult
                   /\ calls[c].raised = calls[c].connecting
            /\ calls[c].ending \in Exceptions \ {"SAPCliError"} =>
                   /\ ~calls[c].returned
                   /\ calls[c].result = NoResult
                   /\ calls[c].raised = calls[c].ending

\* the constructor raised it in one call, the operation, after a write, in another
C4_Witness ==
    /\ Done(1) /\ calls[1].connecting = "RuntimeError"
    /\ Done(2) /\ calls[2].ending = "RuntimeError" /\ calls[2].nwrites > 0

----------------------------------------------------------------------------
\* Properties of the calls against a compiled catalog (SpecServe)

Called == last.op \in {"parse_args", "run"}

\* the node the last call was made on, and its schema
CalledNode == nodes[last.node]

\* the required names the last call left out
AbsentRequired ==
    {p \in Range(CalledNode.required) : p \notin DOMAIN last.arguments}

\* the last call was rejected for missing arguments
RejectedAsMissing ==
    /\ last.out.raised = IF last.op = "parse_args"
                         THEN "MissingArgument"
                         ELSE "SapcliCommandToolError: missing required parameters"
    /\ last.op = "run" =>
           /\ ~last.out.returned
           /\ last.out.result = NoResult
           /\ ~last.out.reconciled
           /\ ~last.out.connected
           /\ ~last.out.invoked

\* the reconciled arguments of the last call, when it produced any
HasReconciled ==
    IF last.op = "parse_args" THEN last.out.raised = "none" ELSE last.out.reconciled

Reconciled ==
    IF last.op = "parse_args" THEN last.out.prepared ELSE last.out.cmd_args

\* C5: a call that lacks names of the node's required list is rejected with
\* MissingArgument (parse_args) or SapcliCommandToolError (run), the error
\* names every absent required parameter, and no OperationResult is returned.
C5_MissingRejected ==
    Called /\ AbsentRequired # {} =>
        /\ RejectedAsMissing
        /\ Range(last.out.names) = AbsentRequired

\* run was called without two or more of the required names
C5_Witness ==
    /\ last.op = "run"
    /\ Cardinality(AbsentRequired) >= 2
    /\ last.out.raised = "SapcliCommandToolError: missing required parameters"

\* the required names the last call left out whose fragment carries a default
AbsentRequiredWithDefault ==
    {p \in AbsentRequired : "default" \in DOMAIN CalledNode.properties[p]}

\* C6, as stated: a call that omits required parameters whose fragments carry
\* a default, and no other required one, is not rejected and the reconciled
\* arguments carry the defaults.
C6_DefaultSatisfiesRequired ==
    Called /\ AbsentRequired # {} /\ AbsentRequired = AbsentRequiredWithDefault =>
        /\ ~RejectedAsMissing
        /\ HasReconciled =>
               \A p \in AbsentRequired \ HTTP_CONNECTION_PARAMS :
                   /\ p \in DOMAIN Reconciled
                   /\ Reconciled[p] = CalledNode.properties[p]["default"]

\* C6, amended: a name of the required list must be present in the call whether
\* or not its fragment carries a default: a call that omits it is rejected, the
\* error names it and nothing is reconciled. A default is carried for an omitted
\* property only when the property is not in the required list.
C6_RequiredDespiteDefault ==
    Called =>
        \A p \in DOMAIN CalledNode.properties :
            "default" \in DOMAIN CalledNode.properties[p] /\ p \notin DOMAIN last.arguments =>
                IF p \in Range(CalledNode.required)
                THEN /\ RejectedAsMissing
                     /\ p \in Range(last.out.names)
                     /\ ~HasReconciled
                ELSE HasReconciled /\ p \notin HTTP_CONNECTION_PARAMS =>
                         /\ p \in DOMAIN Reconciled
                         /\ Reconciled[p] = CalledNode.properties[p]["default"]

\* parse_args was called without the one required name, which has a default
C6_Witness ==
    /\ last.op = "parse_args"
    /\ AbsentRequired # {}
    /\ AbsentRequired = AbsentRequiredWithDefault
    /\ last.out.raised = "MissingArgument"

\* the last call supplied every required parameter and nothing else
SuppliesRequiredOnly == DOMAIN last.arguments = Range(CalledNode.required)

\* what a property is bound to when the supplied value is taken as it came
BoundAsSupplied(p) ==
    IF p \in DOMAIN last.arguments THEN last.arguments[p]
    ELSE IF "default" \in DOMAIN CalledNode.properties[p]
    THEN CalledNode.properties[p]["default"]
    ELSE None

\* what a property is bound to when a value that is not a list, supplied for
\* an array-typed property, is wrapped
BoundWrapped(p) ==
    IF /\ p \in DOMAIN last.arguments
       /\ CalledNode.properties[p].type = "array"
       /\ last.arguments[p].kind # "list"
    THEN [kind |-> "list", items |-> <<AsItem(last.arguments[p])>>]
    ELSE BoundAsSupplied(p)

\* C7, as stated: reconciling a call that supplies every required parameter
\* and omits every optional one yields every property name of the node, each
\* supplied parameter bound to the supplied value, each omitted one to its
\* default, or to None when it has none.
C7_RoundTripAsSupplied ==
    Called /\ SuppliesRequiredOnly /\ HasReconciled =>
        Reconciled = [p \in DOMAIN CalledNode.properties |-> BoundAsSupplied(p)]

\* C7, amended: for such a call parse_args is not rejected and yields every
\* property name of the node, a supplied value bound as it came except that a
\* value that is not a list is wrapped into a one-element list when the property
\* is array-typed, an omitted property bound to its default, or to None without
\* one; _extract_command_args yields the same names but the seven HTTP
\* connection parameters, every supplied value bound as it came.
C7_RoundTrip ==
    Called /\ SuppliesRequiredOnly =>
        /\ last.op = "parse_args" =>
               /\ last.out.raised = "none"
               /\ last.out.prepared =
                      [p \in DOMAIN CalledNode.properties |-> BoundWrapped(p)]
        /\ last.op = "run" /\ last.out.reconciled =>
               last.out.cmd_args =
                   [p \in DOMAIN CalledNode.properties \ HTTP_CONNECTION_PARAMS |->
                        BoundAsSupplied(p)]

\* parse_args reconciled a call that supplied a scalar for the required
\* array-typed property and left out one with a default and one without
C7_Witness ==
    /\ last.op = "parse_args"
    /\ SuppliesRequiredOnly
    /\ last.out.raised = "none"
    /\ \E p \in DOMAIN last.arguments :
           /\ p \in DOMAIN CalledNode.properties
           /\ CalledNode.properties[p].type = "array"
           /\ last.arguments[p].kind = "scalar"
    /\ \E p \in DOMAIN CalledNode.properties \ DOMAIN last.arguments :
           "default" \in DOMAIN CalledNode.properties[p]


\* C8, as stated: in run, the bound operation receives a one-element list for
\* a value that is not a list supplied for an array-typed property, and a
\* supplied list unchanged.
C8_RunCoercesScalar ==
    last.op = "run" /\ last.out.invoked =>
        \A p \in DOMAIN CalledNode.properties \cap DOMAIN last.arguments :
            CalledNode.properties[p].type = "array" =>
                /\ p \in DOMAIN last.out.received
                /\ last.out.received[p] =
                       IF last.arguments[p].kind = "list"
                       THEN last.arguments[p]
                       ELSE [kind |-> "list", items |-> <<AsItem(last.arguments[p])>>]

\* C9, as stated: no injected connection parameter (the seven HTTP ones and
\* sysnr) is a name of the reconciled command arguments; the connection
\* configuration record alone holds their values.
C9_NoConnectionParams ==
    Called /\ HasReconciled =>
        DOMAIN Reconciled \cap InjectedConnectionParams = {}

----------------------------------------------------------------------------
\* Properties of the compile pass (Spec)

\* the last add_argument had no default keyword and no optional nargs
NoDefaultNoOptionalNargs ==
    /\ last.op = "add_argument"
    /\ last.kwargs.default.kind = "absent"
    /\ last.kwargs.nargs \notin {"?", "*"}

\* C10, as stated: after an add_argument with no default and nargs neither '?'
\* nor '*', the derived name is in the node's required list.
C10_NoDefaultIsRequired ==
    NoDefaultNoOptionalNargs =>
        last.parameter \in Range(nodes[last.node].required)

\* C10, amended: after an add_argument that returned, made with no default
\* keyword, nargs neither '?' nor '*' and no required=False keyword, the derived
\* name is the last name of the node's required list.
C10_RequiredByOmission ==
    /\ NoDefaultNoOptionalNargs
    /\ last.raised = "none"
    /\ last.kwargs.required # "false"
    => LET required == nodes[last.node].required
       IN  /\ required # <<>>
           /\ required[Len(required)] = last.parameter

\* -f/--files with nargs='+' was declared on a node add_parser made
C10_Witness ==
    /\ last.op = "add_argument"
    /\ last.node = 2
    /\ last.kwargs.nargs = "+"
    /\ last.parameter = <<"files">>
    /\ <<"files">> \in Range(nodes[2].required)

----------------------------------------------------------------------------
\* Properties of one declaration (SpecDeclare)

\* the last builder call was an add_argument that returned
Declared == last.op = "add_argument" /\ last.raised = "none"

\* the fragment the last add_argument stored
DeclaredFragment == nodes[last.node].properties[last.parameter]

\* C11, as stated, read in its narrowest sense (a default that is not None, no
\* required keyword): after an add_argument that supplies a default, on any
\* node, the parameter is not in the node's required list and the fragment
\* carries exactly that default.
C11_DefaultNotRequired ==
    /\ Declared
    /\ last.kwargs.default.kind \notin {"absent", "none"}
    /\ last.kwargs.required = "absent"
    => /\ last.parameter \notin Range(nodes[last.node].required)
       /\ "default" \in DOMAIN DeclaredFragment
       /\ DeclaredFragment["default"] = last.kwargs.default

\* '--include' was declared with action='append' and nothing else
DeclaredInclude ==
    /\ Declared
    /\ last.args = << <<"-", "-", "include">> >>
    /\ last.kwargs = KW("append", "absent", "absent", Absent, "absent")

\* C12, as stated: declaring '--include' with action='append', no type and no
\* default yields include = {type: array, items: {type: string}} and 'include'
\* is not in the node's required list.
C12_IncludeNotRequired ==
    DeclaredInclude =>
        /\ last.parameter = <<"include">>
        /\ DeclaredFragment = [type |-> "array", items |-> [type |-> "string"]]
        /\ <<"include">> \notin Range(nodes[last.node].required)

\* C12, amended: that declaration yields the same fragment and 'include' is
\* appended to the node's required list, there being no default, no optional
\* nargs and no required keyword.
C12_IncludeRequired ==
    DeclaredInclude =>
        /\ last.parameter = <<"include">>
        /\ DeclaredFragment = [type |-> "array", items |-> [type |-> "string"]]
        /\ LET required == nodes[last.node].required
           IN  /\ required # <<>>
               /\ required[Len(required)] = <<"include">>

\* the declaration was made on a node without any other property
C12_Witness ==
    /\ DeclaredInclude
    /\ DOMAIN nodes[last.node].properties = { <<"include">> }
    /\ nodes[last.node].required = << <<"include">> >>

\* a flag without its leading dashes, every other dash an underscore
Normalized(flag) ==
    LET dashes == {i \in 0..Len(flag) : \A j \in 1..i : flag[j] = "-"}
        k == CHOOSE i \in dashes : \A j \in dashes : j <= i
    IN  [i \in 1..(Len(flag) - k) |->
            IF flag[i + k] = "-" THEN "_" ELSE flag[i + k]]

IsPositional(args) == args[1][1] # "-"
IsLongFirst(args) == ~IsPositional(args) /\ args[1][2] = "-"
IsShortLongPair(args) == ~IsPositional(args) /\ ~IsLongFirst(args) /\ Len(args) >= 2

\* C13: add_argument takes a first flag that does not start with '-' as the
\* name, literally; for a short+long pair the name is the long flag without its
\* leading dashes and with dashes replaced by underscores, and the short name is
\* no key of properties; a long-only flag gives its own stripped, normalized name.
C13_NameDerivation ==
    last.op = "add_argument" =>
        /\ IsPositional(last.args) => last.parameter = last.args[1]
        /\ IsLongFirst(last.args) => last.parameter = Normalized(last.args[1])
        /\ IsShortLongPair(last.args) =>
               /\ last.parameter = Normalized(last.args[2])
               /\ Normalized(last.args[1]) \notin DOMAIN nodes[last.node].properties
        /\ last.raised = "none" => last.parameter \in DOMAIN nodes[last.node].properties

\* '-n', '--dry-run' was declared on a child node
C13_Witness ==
    /\ Declared
    /\ nodes[last.node].parent # 0
    /\ last.args = << <<"-", "n">>, <<"-", "-", "dry", "-", "run">> >>
    /\ last.parameter = <<"dry", "_", "run">>
    /\ <<"dry", "_", "run">> \in DOMAIN nodes[last.node].properties

\* the primitive type the rules make govern a declaration; "absent" is no type
GoverningType(kw) ==
    IF kw.action = "append" \/ kw.nargs \in {"+", "*"}
    THEN IF kw.type = "absent" THEN "str" ELSE kw.type
    ELSE IF kw.action \in {"store_true", "store_false"} THEN "bool"
    ELSE IF kw.action = "count" THEN "int"
    ELSE IF kw.action = "absent" /\ kw.type = "absent" THEN "str"
    ELSE kw.type

SchemaOf(typ) ==
    CASE typ = "str" -> [type |-> "string"]
      [] typ = "int" -> [type |-> "integer"]
      [] typ = "bool" -> [type |-> "boolean"]

\* the fragment the rules give, the governing type being a supported one
RuleFragment(kw) ==
    LET bare == IF kw.action = "append" \/ kw.nargs \in {"+", "*"}
                THEN [type |-> "array", items |-> SchemaOf(GoverningType(kw))]
                ELSE SchemaOf(GoverningType(kw))
    IN  IF kw.default.kind \in {"absent", "none"}
        THEN bare
        ELSE [k \in DOMAIN bare \cup {"default"} |->
                 IF k = "default" THEN kw.default ELSE bare[k]]

C17_SetDefaultsOneOperation ==
    last.op = "set_defaults" =>
        IF DOMAIN last.kwargs = {"execute"}
        THEN /\ last.raised = "none"
             /\ nodes[last.node].cmdfn = last.kwargs["execute"]
        ELSE /\ last.raised = "ArgToToolConversionError"
             /\ nodes[last.node].cmdfn = "None"

----------------------------------------------------------------------------
\* Properties of trees (SpecTree)

HasDash(text) == \E i \in DOMAIN text : text[i] = "-"

\* the names these trees take as given: positional tokens and injected names
LiteralNames ==
    {args[1] : args \in {a \in TreeFlags : IsPositional(a)}}
        \cup {TreeProperties[i][1] : i \in DOMAIN TreeProperties}

\* C14, as stated: after any sequence of add_argument, add_properties and
\* add_parser calls no key of any node's properties begins with a dash or
\* contains one.
C14_NoDashInNames ==
    \A n \in DOMAIN nodes : \A p \in DOMAIN nodes[n].properties : ~HasDash(p)

\* C14, amended: after any such sequence no key of any node's properties begins
\* with a dash, and a key that contains a dash is a name taken as given, the
\* literal token of a positional or a name add_properties injected; every key
\* derived from an option flag is free of dashes, on the node and on the
\* children that inherited it.
C14_FlagNamesNormalized ==
    \A n \in DOMAIN nodes : \A p \in DOMAIN nodes[n].properties :
        /\ p # <<>>
        /\ p[1] # "-"
        /\ HasDash(p) => p \in LiteralNames

\* a child inherited dry_run, declared on its parent as '-n', '--dry-run'
C14_Witness ==
    /\ Len(nodes) >= 2
    /\ <<"dry", "_", "run">> \in DOMAIN nodes[2].properties
    /\ <<"dry", "_", "run">> \in DOMAIN nodes[nodes[2].parent].properties

\* C18: when add_parser returns, the child's properties hold every property of
\* the parent, with the parent's fragment, and the child's required list holds
\* every required name of the parent; an add_argument or add_properties call
\* made on a node afterwards changes the properties and the required list of
\* no other node, so of no child created before.
C18_CopyOnCreate ==
    [][ /\ last'.op = "add_parser" =>
               LET child == nodes'[Len(nodes) + 1]
                   parent == nodes'[last'.node]
               IN  /\ Len(nodes') = Len(nodes) + 1
                   /\ child.parent = last'.node
                   /\ \A q \in DOMAIN parent.properties :
                          /\ q \in DOMAIN child.properties
                          /\ child.properties[q] = parent.properties[q]
                   /\ Range(parent.required) \subseteq Range(child.required)
        /\ last'.op \in {"add_argument", "add_properties"} =>
               \A m \in DOMAIN nodes \ {last'.node} :
                   /\ nodes'[m].properties = nodes[m].properties
                   /\ nodes'[m].required = nodes[m].required ]_vars

\* the parent declared a parameter after its child was created
C18_Witness ==
    /\ Declared
    /\ \E m \in DOMAIN nodes :
           /\ nodes[m].parent = last.node
           /\ last.parameter \in DOMAIN nodes[last.node].properties
           /\ last.parameter \notin DOMAIN nodes[m].properties

\* the items dicts the fragments of a node hold
ItemsObjects(node) == {node.ids[q].items : q \in DOMAIN node.ids} \ {0}

\* C19, as stated, for the nested items fragment (the defaults of these trees
\* are strings, which are never duplicated): no items dict of a child's
\* fragment is the same object as one of its parent's, so a change made inside
\* one is not visible in the other.
C19_DeepCopy ==
    \A m \in DOMAIN nodes :
        nodes[m].parent # 0 =>
            ItemsObjects(nodes[m]) \cap ItemsObjects(nodes[nodes[m].parent]) = {}

\* the nodes below node n
Descendants(n) == {m \in DOMAIN nodes : m # n /\ n \in Ancestors(nodes, m)}

\* the nodes a tools map holds
Registered(n) == {nodes[n].tools[k] : k \in DOMAIN nodes[n].tools}

\* C20, as stated: after any sequence of add_parser calls every created node is
\* registered under its name in the tools map of its parent and of every
\* ancestor up to the root, so the root's map holds every descendant and a
\* node's map holds only its own descendants.
C20_RegisteredInAncestors ==
    \A n \in DOMAIN nodes :
        /\ \A m \in Descendants(n) :
               /\ nodes[m].name \in DOMAIN nodes[n].tools
               /\ nodes[n].tools[nodes[m].name] = m
        /\ Registered(n) = Descendants(n)

\* C21, as stated: a child's name is its parent's name, '_' and the local name,
\* and after any sequence of add_parser calls no two nodes of the tree have the
\* same name, so every node is still the one registered under its name.
C21_NamesUnique ==
    /\ \A m \in DOMAIN nodes :
           nodes[m].parent # 0 =>
               \E local \in LocalNames :
                   nodes[m].name = nodes[nodes[m].parent].name \o <<"_">> \o local
    /\ \A m, k \in DOMAIN nodes : m # k => nodes[m].name # nodes[k].name
    /\ \A m \in DOMAIN nodes :
           nodes[m].parent # 0 => nodes[1].tools[nodes[m].name] = m

----------------------------------------------------------------------------
\* Properties of the published catalog (SpecPublish)

Built == last.op = "publish"

\* the registry entries whose node has a bound operation and whose name the
\* build was asked for
Publishable ==
    {k \in DOMAIN nodes[1].tools :
        /\ nodes[nodes[1].tools[k]].cmdfn # "None"
        /\ last.allowed_commands.given => k \in last.allowed_commands.names}

PublishedNames == {last.out.published[i].name : i \in DOMAIN last.out.published}

\* C22, as stated: when the published catalog is built, a node without a bound
\* operation is skipped and never published, every published tool has a bound
\* operation, and an operation-less node in the registry does not make the
\* build fail.
C22_OperationlessSkipped ==
    Built =>
        /\ last.out.raised = "none"
        /\ \A i \in DOMAIN last.out.published : last.out.published[i].cmdfn # "None"
        /\ PublishedNames = Publishable

----------------------------------------------------------------------------
\* Properties of the connection strategies (SpecFactory)

\* conn_factory was assigned on node n after its creation
SetOwn(n) == \E i \in DOMAIN calls : calls[i] = n

\* the nearest ancestor of node n, n aside, that set a strategy; 0 when none did
RECURSIVE NearestSetter(_)
NearestSetter(n) ==
    IF nodes[n].parent = 0 THEN 0
    ELSE IF SetOwn(nodes[n].parent) THEN nodes[n].parent
    ELSE NearestSetter(nodes[n].parent)

\* C23, as stated: a node that did not set its own strategy has the strategy of
\* its nearest ancestor that set one (none, when no ancestor did), whatever the
\* order of add_parser calls and assignments.
C23_NearestAncestor ==
    \A n \in DOMAIN nodes :
        ~SetOwn(n) =>
            nodes[n].conn_factory =
                IF NearestSetter(n) = 0 THEN "None"
                ELSE nodes[NearestSetter(n)].conn_factory

\* C23, amended: add_parser gives the new node the strategy its parent has at
\* that moment and changes no other node's; an assignment changes the strategy
\* of the node it is made on and of no other node, so it reaches no descendant
\* that exists already.
C23_FactoryCopiedOnCreate ==
    [][/\ last'.op = "add_parser" =>
              /\ nodes'[Len(nodes')].conn_factory = nodes[last'.node].conn_factory
              /\ \A m \in DOMAIN nodes :
                     nodes'[m].conn_factory = nodes[m].conn_factory
       /\ last'.op = "conn_factory" =>
              /\ nodes'[last'.node].conn_factory = last'.conn_factory
              /\ \A m \in DOMAIN nodes \ {last'.node} :
                     nodes'[m].conn_factory = nodes[m].conn_factory]_vars

\* the last call assigned a strategy on a node that has a child already, and
\* the child keeps the one it was created with
C23_Witness ==
    /\ last.op = "conn_factory"
    /\ \E m \in DOMAIN nodes :
           /\ nodes[m].parent = last.node
           /\ nodes[m].conn_factory # nodes[last.node].conn_factory

----------------------------------------------------------------------------
\* Properties of the bridge under concurrent invocations (SpecOverlap)

\* the pieces of text a result holds
Pieces(result) ==
    Range(result.Contents)
        \cup UNION { Range(result.LogMessages[j]) : j \in DOMAIN result.LogMessages }

\* C24: every write of a bound operation lands in the buffer that is the active
\* console at that moment and in no other, whichever call installed it; so
\* once a second call has installed its console, the first operation's later
\* writes go to the second call's buffer and not to its own. The state the
\* claim says is reachable is the witness.
C24_WritesLandInActiveConsole ==
    [][\A c \in DOMAIN calls :
           calls'[c].nwrites = calls[c].nwrites + 1 =>
               LET text == WriteText(c, calls'[c].nwrites)
               IN  /\ \/ /\ capout(heap'[console]) = capout(heap[console]) \o text
                         /\ caperr(heap'[console]) = caperr(heap[console])
                      \/ /\ caperr(heap'[console]) = caperr(heap[console]) \o text
                         /\ capout(heap'[console]) = capout(heap[console])
                   /\ \A b \in DOMAIN heap \ {console} : heap'[b] = heap[b]]_vars

\* both calls returned a result; the first lacks text its own operation wrote,
\* and the second holds text the first call's operation wrote
C24_Witness ==
    /\ Done(1) /\ calls[1].returned
    /\ Done(2) /\ calls[2].returned
    /\ \E i \in DOMAIN calls[1].wrote.out :
           calls[1].wrote.out[i] \notin Pieces(calls[1].result)
    /\ \E p \in Pieces(calls[2].result) : p[1] = "w" /\ p[2] = 1

----------------------------------------------------------------------------
\* Properties of one OutputBuffer (SpecBuffer)

\* C25, as stated: after any sequence of writes to the two channels and reset
\* calls, capout is the concatenation of the primary writes made since the last
\* reset and caperr that of the diagnostic writes made since the last reset.
C25_CapturedSinceReset ==
    /\ capout(heap[0]) = last.since.out
    /\ caperr(heap[0]) = last.since.err

----------------------------------------------------------------------------
\* Properties of SapcliCommandTool.run (SpecServe)

\* the last call was run on a tool whose strategy is neither ADT nor gCTS, with
\* every name of its required list supplied
UnsupportedWithRequired ==
    /\ last.op = "run"
    /\ CalledNode.conn_factory \notin {"adt", "gcts"}
    /\ Range(CalledNode.required) \subseteq DOMAIN last.arguments

\* C26, as stated: run on a tool whose connection strategy is not supported,
\* called with every parameter of its required list, raises
\* SapcliCommandToolError naming the unsupported connection type, constructs no
\* connection and does not invoke the bound operation.
C26_UnsupportedConnection ==
    UnsupportedWithRequired =>
        /\ last.out.raised = "SapcliCommandToolError: unsupported connection type"
        /\ ~last.out.connected
        /\ ~last.out.invoked

\* the steps of run, in the order the claim gives them
StepOrder == <<"cmdfn", "required", "connect", "set_console", "invoke">>

\* C27: in every call of run the steps taken are a beginning of: presence check
\* of the bound operation, required-parameter check, connection construction,
\* installation of the fresh console, invocation; each is taken once at most
\* and only after the one before it succeeded, and the bound operation is not
\* invoked when a required parameter is missing or the connection failed.
C27_StepOrder ==
    last.op = "run" =>
        LET steps == last.out.steps
        IN  /\ Len(steps) <= Len(StepOrder)
            /\ steps = SubSeq(StepOrder, 1, Len(steps))
            /\ Len(steps) >= 2 => CalledNode.cmdfn # "None"
            /\ Len(steps) >= 3 => AbsentRequired = {}
            /\ Len(steps) >= 4 => last.out.connection = "ok"
            /\ Len(steps) >= 4 <=> console = 1
            /\ last.out.invoked <=> Len(steps) = 5
            /\ AbsentRequired # {} => ~last.out.connected /\ ~last.out.invoked
            /\ last.out.connection \notin {"-", "ok"} => ~last.out.invoked

\* a call went through all five steps
C27_Witness ==
    /\ last.op = "run"
    /\ last.out.steps = StepOrder
    /\ last.out.invoked
    /\ last.out.returned

\* C29: a call of parse_args or run leaves every node as it was (properties,
\* required list, bound operation, connection strategy, registry) and the
\* caller's argument map as it was handed in, whether the call succeeds, is
\* rejected for a missing parameter, or fails.
C29_CallChangesNothing ==
    [][last'.op \in {"parse_args", "run"} =>
           /\ nodes' = nodes
           /\ last'.out.arguments = last'.arguments]_vars

\* a reconciliation applied a default and put a null for an absent optional
\* parameter
C29_Witness ==
    /\ last.op = "parse_args"
    /\ last.out.raised = "none"
    /\ \E p \in DOMAIN last.out.prepared :
           /\ p \notin DOMAIN last.arguments
           /\ last.out.prepared[p] # None

----------------------------------------------------------------------------
\* Properties of the active console across calls (SpecBridge)

\* C28, as stated: when an invocation ends, by a normal return, by a reported
\* domain error or by a propagated exception, the console that was active
\* before the invocation is the active console again.
C28_ConsoleRestored ==
    [][\A c \in DOMAIN calls :
           calls[c].pc # "done" /\ calls'[c].pc = "done" =>
               console' = calls'[c].prior]_vars

----------------------------------------------------------------------------
\* Properties of the required list (SpecDeclare)

\* C30, as stated: required is a set; after any sequence of add_argument,
\* add_properties and add_parser calls, a name declared twice on a node or
\* redeclared on a child that inherited it included, no name occurs more than
\* once in any node's required list.
C30_RequiredIsSet ==
    \A n \in DOMAIN nodes :
        \A i, j \in DOMAIN nodes[n].required :
            i # j => nodes[n].required[i] # nodes[n].required[j]

====
